---------------------------- MODULE Spec2Model ----------------------------
(***************************************************************************)
(* Model of the exe-unit virtual network relay                             *)
(* (src/exe-unit/src/network.rs): the length-prefix frame codec            *)
(* (RxBuffer / RxIterator), the topology table behind                      *)
(* ya_utils_networking::vpn::Networks, and the Vpn actor's handlers.       *)
(***************************************************************************)
EXTENDS Integers, Sequences, FiniteSets, TLC

\* ------------------------------------------------------------------ bounds
\* Largest address drawn for nodes, frames and network addresses (0..MaxIp).
MaxIp == 4
\* Most (ip, node id) entries in one AddNodes / RemoveNodes message.
MaxBatch == 2
\* Most entries in a control message of the specification that also
\* forwards frames.
MaxVpnBatch == 1
\* Most (ip, node id) entries per network in the deployment descriptor.
MaxDeployNodes == 1
\* Largest byte value drawn for payload bytes (bytes are 0..255 in the code).
MaxByte == 1
\* Longest payload drawn by the codec specification.
MaxPayloadLen == 2
\* Most payloads in one byte stream of the codec specification.
MaxFrames == 2
\* Most items (chunks and errors) the receive stream yields to the actor.
MaxStreamItems == 2
\* Most packets the workload writes in the lifecycle specification.
MaxLifeFrames == 1
\* Most packets the workload writes in the egress specification.
MaxEgressFrames == 2
\* Most data-route calls the actor accepts in the data specification.
MaxDataIngress == 1
\* Most data-route calls the actor accepts in the sink specification.
MaxSinkCalls == 2
\* Most packets the workload writes in the batch specification.
MaxBatchFrames == 3
\* Most data-route calls the actor accepts in the ingress specification.
MaxIngress == 3
\* Longest short payload a data-route call delivers (one payload longer than
\* a Prefix can count is delivered as well).
MaxIngressLen == 1

\* --------------------------------------------------------------- constants
\* const PREFIX_SIZE: usize = std::mem::size_of::<Prefix>()  (Prefix = u16)
PREFIX_SIZE == 2
\* One past the largest byte value: the radix of u16::from_ne_bytes.
ByteRadix == 256
\* One past the largest Prefix (u16) value: `dst.len() as u16` wraps here.
PrefixModulus == 65536
\* The ARP protocol type of IPv4, the bytes [08, 00] read as one number.
ARP_PTYPE_IPV4 == 2048

VARIABLES
    bigEndian,   \* the build's native byte order (from_ne_bytes / to_ne_bytes)
    payloads,    \* codec: the payload sequence that was encoded
    wire,        \* codec: encoded bytes not yet delivered to RxBuffer::process
    rx_buf,      \* RxBuffer { expected, inner }
    dst,         \* codec: every frame the iterators have emitted, in order
    lastOut,     \* codec: the frames emitted by the last process call
    networks,    \* Vpn::networks: network id -> Network (the topology table)
    lastOp,      \* the operation, message or frame handled last
    lastResult,  \* what that operation returned: "Ok" or the error
    sent,        \* the remote calls the last egress frame issued, in order
    state,       \* the actor's lifecycle state
    startResult, \* what start_vpn returned to its caller ("none": not called)
    rx,          \* Vpn::endpoint.rx, the Option holding the receive stream
    stream,      \* the receive stream in the actor's context (add_stream)
    ctx,         \* the actor's Context: "none", "live" or "dropped"
    bound,       \* the routes registered on the bus: (network id, message)
    waitq,       \* the context's wait list (ctx.wait), futures not yet polled
    unbound,     \* the network ids typed::unbind was called for
    consumed,    \* how many items of the receive stream the actor handled
    calls,       \* every remote call issued by the egress handler, in order
    accepted,    \* ingress: the packets the VpnPacket handler accepted
    tasks,       \* ingress: the spawned send tasks that did not run yet
    chan,        \* ingress: the mpsc channel (tx_si -> rx_si) to the socket
    transport,   \* ingress: the writes to the local socket, in order
    sinkOpen     \* ingress: whether the task forwarding rx_si is alive

codecVars == <<bigEndian, payloads, wire, rx_buf, dst, lastOut>>
topoVars == <<networks, lastOp, lastResult, sent>>
relayVars ==
    <<state, startResult, rx, stream, ctx, bound, waitq, unbound, consumed,
      calls>>
ingressVars == <<accepted, tasks, chan, transport, sinkOpen>>
vars == <<codecVars, topoVars, relayVars, ingressVars>>

\* ------------------------------------------------------------------ helpers
Min(a, b) == IF a < b THEN a ELSE b

\* Vec::drain(..n): the first n elements / what is left.
Take(s, n) == SubSeq(s, 1, n)
Drop(s, n) == SubSeq(s, n + 1, Len(s))

Bytes == 0..MaxByte

\* All sequences over S of length 0..n.
SeqsUpTo(S, n) == UNION {[1..k -> S] : k \in 0..n}

RECURSIVE Flatten(_)
Flatten(ss) == IF ss = <<>> THEN <<>> ELSE Head(ss) \o Flatten(Tail(ss))

\* --------------------------------------------------------------- the codec
\* Option::None for a Prefix (a u16 is never negative).
NoPrefix == -1

\* u16::from_ne_bytes on the first PREFIX_SIZE bytes.
read_prefix(src) ==
    IF Len(src) < PREFIX_SIZE THEN NoPrefix
    ELSE IF bigEndian THEN src[1] * ByteRadix + src[2]
         ELSE src[1] + src[2] * ByteRadix

\* take_next: whether src holds prefix + len bytes, the payload it then
\* returns, and what it leaves in src.
take_next_some(src, len) == Len(src) >= PREFIX_SIZE + len
take_next_item(src, len) == SubSeq(src, PREFIX_SIZE + 1, PREFIX_SIZE + len)
take_next_rest(src, len) == Drop(src, PREFIX_SIZE + len)

\* write_prefix: the payload with its length, cast to u16, spliced in front.
write_prefix(v) ==
    LET len_u16 == Len(v) % PrefixModulus
        lo == len_u16 % ByteRadix
        hi == len_u16 \div ByteRadix
    IN  (IF bigEndian THEN <<hi, lo>> ELSE <<lo, hi>>) \o v

\* RxIterator::next on [expected, inner, received]: the item (some/val) and
\* the state it leaves.
RxNext(st) ==
    LET topup == st.expected > 0 /\ Len(st.received) > 0
        len0  == Min(st.expected, Len(st.received))
        inner1    == IF topup THEN st.inner \o Take(st.received, len0) ELSE st.inner
        received1 == IF topup THEN Drop(st.received, len0) ELSE st.received
        p1 == read_prefix(inner1)
        p2 == read_prefix(received1)
    IN  IF p1 # NoPrefix /\ take_next_some(inner1, p1)
        THEN LET rest == take_next_rest(inner1, p1)
                 np   == read_prefix(rest)
             IN  [some |-> TRUE, val |-> take_next_item(inner1, p1),
                  st |-> [expected |-> IF np = NoPrefix THEN 0 ELSE np,
                          inner |-> rest, received |-> received1]]
        ELSE IF p2 # NoPrefix /\ take_next_some(received1, p2)
        THEN [some |-> TRUE, val |-> take_next_item(received1, p2),
              st |-> [expected |-> st.expected, inner |-> inner1,
                      received |-> take_next_rest(received1, p2)]]
        ELSE LET inner2 == inner1 \o received1
                 np     == read_prefix(inner2)
             IN  [some |-> FALSE, val |-> <<>>,
                  st |-> [expected |-> IF np = NoPrefix THEN st.expected ELSE np,
                          inner |-> inner2, received |-> <<>>]]

\* `for item in buf.process(received)`: the iterator run until it returns None.
RECURSIVE RxDrain(_, _)
RxDrain(st, out) ==
    LET r == RxNext(st)
    IN  IF r.some THEN RxDrain(r.st, Append(out, r.val))
        ELSE [st |-> r.st, out |-> out]

\* RxBuffer::process(received), exhausted: the frames and the buffer left.
RxProcess(buf, received) ==
    LET d == RxDrain([expected |-> buf.expected, inner |-> buf.inner,
                      received |-> received], <<>>)
    IN  [out |-> d.out,
         buf |-> [expected |-> d.st.expected, inner |-> d.st.inner]]

\* RxBuffer::default()
RxBufferDefault == [expected |-> 0, inner |-> <<>>]

\* Vpn::rx_buf is an Option<RxBuffer>: Some(buffer) is the buffer, and None,
\* what `take()` leaves behind, is this value, which no buffer equals.
RxBufNone == [expected |-> -1, inner |-> <<>>]

\* The byte stream of the test: every payload passed through write_prefix.
Encode(ps) == Flatten([i \in 1..Len(ps) |-> write_prefix(ps[i])])

\* ------------------------------------------------------ the topology table
\* vpn::Networks, Network and the packet views live in ya_utils_networking,
\* outside this source tree: their operations follow the design document
\* (sections 3 and 4.2) and the calls network.rs makes of them.
\* The identifiers drawn for networks and for nodes (peers).
NetIds == {"lan0", "lan1"}
NodeIds == {"alice", "bob"}

\* Addresses are numbers; an address space is an aligned block
\* [addr, addr + size) of 2 or 4 addresses (a /31 or a /30).
IPs == 0..MaxIp
Spaces == {sp \in [addr : IPs, size : {2, 4}] : sp.addr % sp.size = 0}

\* IpNet::contains
Contains(space, ip) == space.addr <= ip /\ ip < space.addr + space.size
\* IpNet::hosts: the usable host addresses (neither the network address nor
\* the broadcast address).
Hosts(space) == (space.addr + 1)..(space.addr + space.size - 2)
\* The reserved gateway: the first usable host address.
Gateway(space) == space.addr + 1
\* The broadcast address of the space.
BroadcastAddr(space) == space.addr + space.size - 1

\* Mutant of gsb_endpoint: the two ids in each other's place.
gsb_endpoint_swapped(node_id, net_id) == "/net/" \o net_id \o "/vpn/" \o node_id

\* gsb_endpoint: typed::service(format!("/net/{}/vpn/{}", node_id, net_id))
gsb_endpoint(node_id, net_id) == "/net/" \o node_id \o "/vpn/" \o net_id

\* vpn::Networks::default(): no network.
NetworksDefault == [n \in {} |-> 0]

\* An empty VirtualNetwork with its reserved gateway. nodes is the set of
\* (ip, node id) memberships, endpoints the reverse index (ip, endpoint).
NetworkNew(id, space) ==
    [id |-> id, network |-> space, gateway |-> Gateway(space),
     nodes |-> {}, endpoints |-> {}]

\* Mutant of networks_add: no check for a registered id, the network is
\* created again.
networks_add_overwrite(nets, id, space) ==
    IF Cardinality(Hosts(space)) < 2
    THEN [err |-> "InvalidAddressSpace", nets |-> nets]
    ELSE [err |-> "Ok",
          nets |-> [n \in DOMAIN nets \cup {id} |->
                        IF n = id THEN NetworkNew(id, space) ELSE nets[n]]]

\* Networks::add (add_network)
networks_add(nets, id, space) ==
    IF id \in DOMAIN nets
    THEN [err |-> "DuplicateNetwork", nets |-> nets]
    ELSE IF Cardinality(Hosts(space)) < 2
    THEN [err |-> "InvalidAddressSpace", nets |-> nets]
    ELSE [err |-> "Ok",
          nets |-> [n \in DOMAIN nets \cup {id} |->
                        IF n = id THEN NetworkNew(id, space) ELSE nets[n]]]

\* Networks::get_mut: whether the network is registered.
get_mut_ok(nets, id) == id \in DOMAIN nets

\* Mutant of add_node: the gateway address is not refused.
add_node_gateway(net, ip, id) ==
    IF ~Contains(net.network, ip)
    THEN [err |-> "AddressOutOfRange", net |-> net]
    ELSE IF \E e \in net.nodes : e[1] = ip /\ e[2] # id
    THEN [err |-> "AddressInUse", net |-> net]
    ELSE LET old    == {e \in net.nodes : e[2] = id}
             oldIps == {e[1] : e \in old}
         IN  [err |-> "Ok",
              net |-> [net EXCEPT
                  !.nodes = (@ \ old) \cup {<<ip, id>>},
                  !.endpoints = {e \in @ : e[1] \notin oldIps /\ e[1] # ip}
                                    \cup {<<ip, gsb_endpoint(id, net.id)>>}]]

\* Network::add_node(ip, id, gsb_endpoint)
add_node(net, ip, id) ==
    IF ~Contains(net.network, ip) \/ ip = net.gateway
    THEN [err |-> "AddressOutOfRange", net |-> net]
    ELSE IF \E e \in net.nodes : e[1] = ip /\ e[2] # id
    THEN [err |-> "AddressInUse", net |-> net]
    ELSE LET old    == {e \in net.nodes : e[2] = id}
             oldIps == {e[1] : e \in old}
         IN  [err |-> "Ok",
              net |-> [net EXCEPT
                  !.nodes = (@ \ old) \cup {<<ip, id>>},
                  !.endpoints = {e \in @ : e[1] \notin oldIps /\ e[1] # ip}
                                    \cup {<<ip, gsb_endpoint(id, net.id)>>}]]

\* Network::remove_node(id): every mapping of the node, and its index entries.
remove_node(net, id) ==
    LET old    == {e \in net.nodes : e[2] = id}
        oldIps == {e[1] : e \in old}
    IN  [net EXCEPT !.nodes = @ \ old,
                    !.endpoints = {e \in @ : e[1] \notin oldIps}]

\* Networks::endpoint(ip) (resolve): the endpoints the lookup may return, one
\* per network whose index holds ip; the empty set is None.
endpoint(nets, ip) ==
    {e[2] : e \in {x \in UNION {nets[n].endpoints : n \in DOMAIN nets} : x[1] = ip}}

\* Networks::endpoints(): the endpoints of every node of the table,
\* deduplicated.
endpoints(nets) ==
    {e[2] : e \in UNION {nets[n].endpoints : n \in DOMAIN nets}}

\* IpPacket::is_broadcast: the destination is a network's broadcast address.
is_broadcast(nets, frame) ==
    \E n \in DOMAIN nets : frame.dst = BroadcastAddr(nets[n].network)

\* ------------------------------------------------------------ the Vpn actor
\* The address of an AddNodes entry that does not parse (no address is
\* negative).
Unparsable == -1

\* Deployment::map_nodes(nodes): fails, before any node is added, when an
\* entry does not parse.
map_nodes_ok(nodes) == \A i \in 1..Len(nodes) : nodes[i][1] # Unparsable

\* `for (ip, id) in nodes { network.add_node(ip, &id, gsb_endpoint)?; }`:
\* the first failure returns; the network keeps what was added before it.
RECURSIVE AddNodesLoop(_, _)
AddNodesLoop(net, nodes) ==
    IF nodes = <<>> THEN [err |-> "Ok", net |-> net]
    ELSE LET r == add_node(net, Head(nodes)[1], Head(nodes)[2])
         IN  IF r.err # "Ok" THEN r ELSE AddNodesLoop(r.net, Tail(nodes))

\* Mutant of RemoveNodesLoop: the loop ends at the first node id that has
\* no membership in the network.
RECURSIVE RemoveNodesLoopUntilMissing(_, _)
RemoveNodesLoopUntilMissing(net, node_ids) ==
    IF node_ids = <<>> THEN net
    ELSE IF \A e \in net.nodes : e[2] # Head(node_ids) THEN net
    ELSE RemoveNodesLoopUntilMissing(remove_node(net, Head(node_ids)),
                                     Tail(node_ids))

\* node_ids.into_iter().for_each(|id| network.remove_node(&id))
RECURSIVE RemoveNodesLoop(_, _)
RemoveNodesLoop(net, node_ids) ==
    IF node_ids = <<>> THEN net
    ELSE RemoveNodesLoop(remove_node(net, Head(node_ids)), Tail(node_ids))

\* Mutant of ControlAddNodes: the result of add_node is dropped and the
\* handler answers Ok.
ControlAddNodesSwallow(nets, network_id, nodes) ==
    IF ~get_mut_ok(nets, network_id)
    THEN [err |-> "UnknownNetwork", nets |-> nets]
    ELSE IF ~map_nodes_ok(nodes)
    THEN [err |-> "ParseError", nets |-> nets]
    ELSE LET r == AddNodesLoop(nets[network_id], nodes)
         IN  [err |-> "Ok", nets |-> [nets EXCEPT ![network_id] = r.net]]

\* Handler<RpcEnvelope<VpnControl>>::handle, VpnControl::AddNodes
ControlAddNodes(nets, network_id, nodes) ==
    IF ~get_mut_ok(nets, network_id)
    THEN [err |-> "UnknownNetwork", nets |-> nets]
    ELSE IF ~map_nodes_ok(nodes)
    THEN [err |-> "ParseError", nets |-> nets]
    ELSE LET r == AddNodesLoop(nets[network_id], nodes)
         IN  [err |-> r.err, nets |-> [nets EXCEPT ![network_id] = r.net]]

\* Handler<RpcEnvelope<VpnControl>>::handle, VpnControl::RemoveNodes
ControlRemoveNodes(nets, network_id, node_ids) ==
    IF ~get_mut_ok(nets, network_id)
    THEN [err |-> "UnknownNetwork", nets |-> nets]
    ELSE [err |-> "Ok",
          nets |-> [nets EXCEPT
                       ![network_id] = RemoveNodesLoop(@, node_ids)]]

\* Vpn::try_new, first pass: networks.add(id, net.network) for every network
\* of the deployment (a map: the ids are distinct).
RECURSIVE TryNewNetworks(_, _, _)
TryNewNetworks(nets, deployment, ids) ==
    IF ids = {} THEN [err |-> "Ok", nets |-> nets]
    ELSE LET id == CHOOSE x \in ids : TRUE
             r  == networks_add(nets, id, deployment[id].network)
         IN  IF r.err # "Ok" THEN r
             ELSE TryNewNetworks(r.nets, deployment, ids \ {id})

\* Vpn::try_new, second pass: add_node for every node of every network.
RECURSIVE TryNewNodes(_, _, _)
TryNewNodes(nets, deployment, ids) ==
    IF ids = {} THEN [err |-> "Ok", nets |-> nets]
    ELSE LET id == CHOOSE x \in ids : TRUE
             r  == AddNodesLoop(nets[id], deployment[id].nodes)
         IN  IF r.err # "Ok" THEN [err |-> r.err, nets |-> nets]
             ELSE TryNewNodes([nets EXCEPT ![id] = r.net], deployment,
                              ids \ {id})

\* Vpn::try_new: the table of the new actor, or the error.
TryNew(deployment) ==
    LET a == TryNewNetworks(NetworksDefault, deployment, DOMAIN deployment)
    IN  IF a.err # "Ok" THEN a
        ELSE TryNewNodes(a.nets, deployment, DOMAIN deployment)

\* A decoded frame is its bytes: the link-layer type, the destination
\* address of the packet it carries, and the rest of the packet.
IpFrames == [ether : {"Ip"}, dst : IPs, body : Bytes]

\* frame.as_ref().to_vec() / frame.into(): the bytes of the whole frame.
FrameBytes(frame) == frame

\* Mutant of forward_frame: the call carries the packet inside the frame
\* (frame.payload()), the frame without its link-layer header.
forward_frame_payload(ep, frame) ==
    [target |-> ep, payload |-> [frame EXCEPT !.ether = "stripped"]]

\* Vpn::forward_frame: one call of the endpoint with the frame's bytes.
forward_frame(ep, frame) == [target |-> ep, payload |-> FrameBytes(frame)]

\* Every order in which a collection with the elements of S may be iterated.
Orders(S) ==
    {f \in [1..Cardinality(S) -> S] : \A i, j \in DOMAIN f : f[i] = f[j] => i = j}

\* Vpn::handle_ip: the sequences of remote calls it may issue for the frame.
handle_ip(nets, frame) ==
    IF is_broadcast(nets, frame)
    THEN {[i \in DOMAIN o |-> [target |-> o[i], payload |-> FrameBytes(frame)]] :
              o \in Orders(endpoints(nets))}
    ELSE IF endpoint(nets, frame.dst) = {} THEN {<<>>}
    ELSE {<<forward_frame(ep, frame)>> : ep \in endpoint(nets, frame.dst)}

\* Decoded ARP frames: the protocol type (PTYPE: IPv4, or IPv6 as the other
\* value), the target protocol address (TPA) and the rest of the packet.
ArpPTypes == {ARP_PTYPE_IPV4, 34525}
ArpFrames == [ether : {"Arp"}, ptype : ArpPTypes, tpa : IPs, body : Bytes]

\* Mutant of handle_arp: the protocol type is not looked at.
handle_arp_any_ptype(nets, frame) ==
    IF endpoint(nets, frame.tpa) = {} THEN {<<>>}
    ELSE {<<forward_frame(ep, frame)>> : ep \in endpoint(nets, frame.tpa)}

\* Vpn::handle_arp: the sequences of remote calls it may issue for the frame.
handle_arp(nets, frame) ==
    IF frame.ptype # ARP_PTYPE_IPV4 THEN {<<>>}
    ELSE IF endpoint(nets, frame.tpa) = {} THEN {<<>>}
    ELSE {<<forward_frame(ep, frame)>> : ep \in endpoint(nets, frame.tpa)}

\* -------------------------------------------------------- the egress handler
\* The bytes of a packet on the local transport: the link-layer type in the
\* first two bytes (08 00: IP, 08 06: ARP), then the fields the relay reads
\* (IP: the destination address; ARP: PTYPE in two bytes and TPA), then the
\* rest of the packet.
ETHERTYPE_IP == <<8, 0>>
ETHERTYPE_ARP == <<8, 6>>
IpPacketBytes(ip, body) == ETHERTYPE_IP \o <<ip>> \o body
ArpPacketBytes(ptype, tpa, body) ==
    ETHERTYPE_ARP \o <<ptype \div ByteRadix, ptype % ByteRadix, tpa>> \o body

\* EtherFrame::try_from(packet): the frame, or the error (an unsupported
\* link-layer type, or a packet too short for its headers).
EtherFrameTryFrom(packet) ==
    IF Len(packet) < 2
    THEN [ok |-> FALSE, err |-> "PacketMalformed"]
    ELSE IF Take(packet, 2) = ETHERTYPE_IP
    THEN IF Len(packet) < 3
         THEN [ok |-> FALSE, err |-> "PacketMalformed"]
         ELSE [ok |-> TRUE,
               frame |-> [ether |-> "Ip", dst |-> packet[3],
                          body |-> Drop(packet, 3)]]
    ELSE IF Take(packet, 2) = ETHERTYPE_ARP
    THEN IF Len(packet) < 5
         THEN [ok |-> FALSE, err |-> "PacketMalformed"]
         ELSE [ok |-> TRUE,
               frame |-> [ether |-> "Arp",
                          ptype |-> packet[3] * ByteRadix + packet[4],
                          tpa |-> packet[5], body |-> Drop(packet, 5)]]
    ELSE [ok |-> FALSE, err |-> "ProtocolNotSupported"]

\* The body of the handler's loop for one packet: the sequences of remote
\* calls it may issue (none for a packet that is not a frame).
HandlePacket(nets, packet) ==
    LET f == EtherFrameTryFrom(packet)
    IN  IF ~f.ok THEN {<<>>}
        ELSE IF f.frame.ether = "Arp" THEN handle_arp(nets, f.frame)
        ELSE handle_ip(nets, f.frame)

\* The calls of the k-th decoded frame as the context holds them: spawned,
\* not yet complete.
Spawned(cs, k) ==
    [i \in DOMAIN cs |->
        [target |-> cs[i].target, payload |-> cs[i].payload,
         frame |-> k, status |-> "pending"]]

\* Mutant of HandlePackets: the packets of a chunk are handled last first.
RECURSIVE HandlePacketsLastFirst(_, _, _)
HandlePacketsLastFirst(nets, packets, k) ==
    IF packets = <<>> THEN {<<>>}
    ELSE {rest \o Spawned(cs, k + 1) :
              cs \in HandlePacket(nets, Head(packets)),
              rest \in HandlePacketsLastFirst(nets, Tail(packets), k + 1)}

\* Mutant of HandlePackets: the loop ends at the first packet that is not a
\* frame.
RECURSIVE HandlePacketsUntilBad(_, _, _)
HandlePacketsUntilBad(nets, packets, k) ==
    IF packets = <<>> THEN {<<>>}
    ELSE IF ~EtherFrameTryFrom(Head(packets)).ok THEN {<<>>}
    ELSE {Spawned(cs, k + 1) \o rest :
              cs \in HandlePacket(nets, Head(packets)),
              rest \in HandlePacketsUntilBad(nets, Tail(packets), k + 1)}

\* `for packet in rx_buf.process(received) { .. }`: the sequences of calls
\* the loop may issue for the packets, the first of them being the
\* (k + 1)-th frame decoded from the stream.
RECURSIVE HandlePackets(_, _, _)
HandlePackets(nets, packets, k) ==
    IF packets = <<>> THEN {<<>>}
    ELSE {Spawned(cs, k + 1) \o rest :
              cs \in HandlePacket(nets, Head(packets)),
              rest \in HandlePackets(nets, Tail(packets), k + 1)}

\* Mutant of StreamHandlerHandle: an error item resets the buffer.
StreamHandlerHandleReset(nets, buf, result, k) ==
    IF ~result.ok
    THEN {[buf |-> RxBufferDefault, out |-> <<>>, calls |-> <<>>]}
    ELSE LET r == RxProcess(buf, result.vec)
         IN  {[buf |-> r.buf, out |-> r.out, calls |-> cs] :
                  cs \in HandlePackets(nets, r.out, k)}

\* Mutant of StreamHandlerHandle: a packet that is not a frame ends the
\* handler (`return` in place of `continue`), which leaves the buffer taken.
StreamHandlerHandleReturn(nets, buf, result, k) ==
    IF ~result.ok THEN {[buf |-> buf, out |-> <<>>, calls |-> <<>>]}
    ELSE IF buf = RxBufNone
    THEN {[buf |-> RxBufNone, out |-> <<>>, calls |-> <<>>]}
    ELSE LET r == RxProcess(buf, result.vec)
             bad == \E i \in DOMAIN r.out : ~EtherFrameTryFrom(r.out[i]).ok
         IN  {[buf |-> IF bad THEN RxBufNone ELSE r.buf, out |-> r.out,
               calls |-> cs] :
                  cs \in HandlePacketsUntilBad(nets, r.out, k)}

\* StreamHandler::handle(result): an error item is logged; otherwise the
\* buffer is taken out of rx_buf (were it None, the chunk would be dropped
\* with an error line), the chunk is run through it, every packet it
\* completes is handled, and the buffer is put back. The outcomes: the
\* value of rx_buf left, the packets decoded and the calls issued, frames
\* being numbered from k + 1.
StreamHandlerHandle(nets, buf, result, k) ==
    IF ~result.ok THEN {[buf |-> buf, out |-> <<>>, calls |-> <<>>]}
    ELSE IF buf = RxBufNone
    THEN {[buf |-> RxBufNone, out |-> <<>>, calls |-> <<>>]}
    ELSE LET r == RxProcess(buf, result.vec)
         IN  {[buf |-> r.buf, out |-> r.out, calls |-> cs] :
                  cs \in HandlePackets(nets, r.out, k)}

\* ------------------------------------------------------- the ingress handler
\* Mutant of VpnPacketHandle: a call with an empty packet is answered with
\* an error.
VpnPacketHandleRejectEmpty(packet) ==
    [reply |-> IF packet = <<>> THEN "Err" ELSE "Ok",
     msg |-> write_prefix(packet)]

\* Handler<RpcEnvelope<VpnPacket>>::handle: the packet gets its prefix, a
\* task that sends it on a clone of endpoint.tx is spawned, and the caller is
\* answered Ok(()).
VpnPacketHandle(packet) == [reply |-> "Ok", msg |-> write_prefix(packet)]

\* The spawned task, `tx.send(Ok(packet.0)).await`, of the n-th accepted
\* call: its message joins the channel's queue, or, with the receiver gone,
\* the error is logged. (A fresh clone of the sender has a slot of its own:
\* its first send is queued without waiting for room.) A message is kept as
\* the number of its call; its bytes are IngressMsg.
TxSend(queue, open, n) == IF open THEN Append(queue, n) ELSE queue

\* `rx_si.forward(sink)`: the oldest message of the channel is written to
\* the socket; a write error ends the forwarding task and drops the channel.
SinkWrite(queue, ok) ==
    [attempt |-> [n |-> Head(queue), ok |-> ok],
     queue |-> IF ok THEN Tail(queue) ELSE <<>>,
     open |-> ok]

\* ------------------------------------------------------ the actor's lifecycle
\* The messages a network's routes are bound for, and the routes of a table:
\* bind::<VpnControl> and bind::<VpnPacket> under network_id(net).
RouteMessages == {"VpnControl", "VpnPacket"}
RoutesOf(nets) == (DOMAIN nets) \X RouteMessages

\* What the runtime's create_network answers: response.endpoint.
Endpoints == {"Some", "None"}

\* Mutant of start_vpn: a response without an endpoint does not end the
\* start; the actor is built without a receive stream.
start_vpn_without_endpoint(deployment, response_endpoint) ==
    IF DOMAIN deployment = {}
    THEN [err |-> "Ok", step |-> "networking", vpn |-> FALSE,
          nets |-> NetworksDefault, rx |-> "None"]
    ELSE LET t == TryNew(deployment)
         IN  IF t.err # "Ok"
             THEN [err |-> t.err, step |-> "try_new", vpn |-> FALSE,
                   nets |-> NetworksDefault, rx |-> "None"]
             ELSE [err |-> "Ok", step |-> "start", vpn |-> TRUE,
                   nets |-> t.nets, rx |-> response_endpoint]

\* start_vpn: Ok(None) without networking, the error of a response without
\* an endpoint or of try_new, or the actor (VpnEndpoint::connect sets rx to
\* Some). step is the step that returned.
start_vpn(deployment, response_endpoint) ==
    IF DOMAIN deployment = {}
    THEN [err |-> "Ok", step |-> "networking", vpn |-> FALSE,
          nets |-> NetworksDefault, rx |-> "None"]
    ELSE IF response_endpoint = "None"
    THEN [err |-> "VPN endpoint already connected", step |-> "endpoint",
          vpn |-> FALSE, nets |-> NetworksDefault, rx |-> "None"]
    ELSE LET t == TryNew(deployment)
         IN  IF t.err # "Ok"
             THEN [err |-> t.err, step |-> "try_new", vpn |-> FALSE,
                   nets |-> NetworksDefault, rx |-> "None"]
             ELSE [err |-> "Ok", step |-> "start", vpn |-> TRUE,
                   nets |-> t.nets, rx |-> "Some"]

\* Mutant of started: only the control route of each network is bound.
started_control_only(nets, rx0) ==
    [bound |-> (DOMAIN nets) \X {"VpnControl"}, rx |-> "None",
     stream |-> IF rx0 = "Some" THEN "attached" ELSE "none",
     state |-> IF rx0 = "Some" THEN "Active" ELSE "Stopping"]

\* Vpn::started: both routes of every network are bound, then rx is taken:
\* the stream is added to the context, or, without one, ctx.stop().
started(nets, rx0) ==
    [bound |-> RoutesOf(nets), rx |-> "None",
     stream |-> IF rx0 = "Some" THEN "attached" ELSE "none",
     state |-> IF rx0 = "Some" THEN "Active" ELSE "Stopping"]

\* Mutant of stopping: the actor asks to keep running.
stopping_continue(nets) ==
    [wait |-> [unbind |-> DOMAIN nets], running |-> "Continue"]

\* Vpn::stopping: a future that unbinds every network is put on the
\* context's wait list (ctx.wait) and Running::Stop is returned.
stopping(nets) == [wait |-> [unbind |-> DOMAIN nets], running |-> "Stop"]

\* ---------------------------------------------------------- idle defaults
\* The codec's variables in the specifications that do not use it, and the
\* topology's in the codec's.
CodecIdle ==
    /\ bigEndian = FALSE
    /\ payloads = <<>>
    /\ wire = <<>>
    /\ rx_buf = RxBufferDefault
    /\ dst = <<>>
    /\ lastOut = <<>>

TopoIdle ==
    /\ networks = NetworksDefault
    /\ lastOp = [op |-> "none"]
    /\ lastResult = "Ok"
    /\ sent = <<>>

\* The ingress side before any data call.
IngressIdle ==
    /\ accepted = <<>>
    /\ tasks = {}
    /\ chan = <<>>
    /\ transport = <<>>
    /\ sinkOpen = TRUE

\* The actor before start_vpn.
RelayIdle ==
    /\ state = "NotStarted"
    /\ startResult = "none"
    /\ rx = "None"
    /\ stream = "none"
    /\ ctx = "none"
    /\ bound = {}
    /\ waitq = <<>>
    /\ unbound = {}
    /\ consumed = 0
    /\ calls = <<>>
    /\ IngressIdle

\* The actor that start_vpn started for the table nets, before any message.
RelayStarted(nets) ==
    /\ state = "Active"
    /\ startResult = "Ok"
    /\ rx = "None"
    /\ stream = "attached"
    /\ ctx = "live"
    /\ bound = RoutesOf(nets)
    /\ waitq = <<>>
    /\ unbound = {}
    /\ consumed = 0
    /\ calls = <<>>
    /\ IngressIdle

\* ------------------------------------------------- codec specification
Payloads == SeqsUpTo(Bytes, MaxPayloadLen)

InitCodec ==
    /\ bigEndian \in BOOLEAN
    /\ payloads \in SeqsUpTo(Payloads, MaxFrames)
    /\ wire = Encode(payloads)
    /\ rx_buf = RxBufferDefault
    /\ dst = <<>>
    /\ lastOut = <<>>
    /\ TopoIdle
    /\ RelayIdle

\* One chunk of the stream, of any size (empty included), is read from the
\* transport and processed; the iterator is run to exhaustion.
Process ==
    \E n \in 0..Len(wire) :
        LET r == RxProcess(rx_buf, Take(wire, n))
        IN  /\ wire' = Drop(wire, n)
            /\ rx_buf' = r.buf
            /\ dst' = dst \o r.out
            /\ lastOut' = r.out
            /\ UNCHANGED <<bigEndian, payloads, topoVars, relayVars, ingressVars>>

NextCodec == Process

SpecCodec == InitCodec /\ [][NextCodec]_vars

\* --------------------------------------------- topology table specification
\* The table's operations applied, from the empty table, to drawn arguments.
InitTable ==
    /\ networks = NetworksDefault
    /\ lastOp = [op |-> "none"]
    /\ lastResult = "Ok"
    /\ sent = <<>>
    /\ CodecIdle
    /\ RelayIdle

\* add_network(id, address_space)
AddNetwork ==
    \E id \in NetIds, space \in Spaces :
        LET r == networks_add(networks, id, space)
        IN  /\ networks' = r.nets
            /\ lastResult' = r.err
            /\ lastOp' = [op |-> "add_network", net |-> id, space |-> space]
            /\ UNCHANGED <<sent, codecVars, relayVars, ingressVars>>

\* add_node(network_id, ip, peer_id): get_mut, then Network::add_node
AddNode ==
    \E id \in NetIds, ip \in IPs, node \in NodeIds :
        LET r == ControlAddNodes(networks, id, <<<<ip, node>>>>)
        IN  /\ networks' = r.nets
            /\ lastResult' = r.err
            /\ lastOp' = [op |-> "add_node", net |-> id, ip |-> ip, node |-> node]
            /\ UNCHANGED <<sent, codecVars, relayVars, ingressVars>>

\* remove_node(network_id, peer_id): get_mut, then Network::remove_node
RemoveNode ==
    \E id \in NetIds, node \in NodeIds :
        LET r == ControlRemoveNodes(networks, id, <<node>>)
        IN  /\ networks' = r.nets
            /\ lastResult' = r.err
            /\ lastOp' = [op |-> "remove_node", net |-> id, node |-> node]
            /\ UNCHANGED <<sent, codecVars, relayVars, ingressVars>>

NextTable == AddNetwork \/ AddNode \/ RemoveNode

SpecTable == InitTable /\ [][NextTable]_vars

\* ------------------------------------------------------- Vpn specification
\* The deployment descriptors drawn: any set of networks, each with a usable
\* address space and a short list of (ip, node id) entries.
UsableSpaces == {sp \in Spaces : Cardinality(Hosts(sp)) >= 2}
NodeEntries == IPs \X NodeIds
DeploymentNetworks ==
    [network : UsableSpaces, nodes : SeqsUpTo(NodeEntries, MaxDeployNodes)]
Deployments == UNION {[S -> DeploymentNetworks] : S \in SUBSET NetIds}

\* The node lists an AddNodes message may carry: up to k parsable entries,
\* or a list with an entry that does not parse (alone, or after a parsable
\* entry).
UnparsableLists ==
    {<<<<Unparsable, n>>>> : n \in NodeIds}
        \cup {<<e, <<Unparsable, n>>>> : e \in NodeEntries, n \in NodeIds}
NodeLists(k) == SeqsUpTo(NodeEntries, k) \cup UnparsableLists

\* The actor Vpn::try_new returned for a deployment it accepted.
InitVpn ==
    /\ \E d \in Deployments :
           /\ TryNew(d).err = "Ok"
           /\ networks = TryNew(d).nets
    /\ lastOp = [op |-> "none"]
    /\ lastResult = "Ok"
    /\ sent = <<>>
    /\ CodecIdle
    /\ RelayStarted(networks)

\* A VpnControl::AddNodes message for one of the networks ids with one of
\* the node lists is handled.
AddNodesFrom(ids, lists) ==
    \E network_id \in ids :
        \E r \in {ControlAddNodes(networks, network_id, nodes) :
                     nodes \in lists} :
            /\ networks' = r.nets
            /\ lastResult' = r.err
            /\ lastOp' = [op |-> "AddNodes", net |-> network_id]
            /\ sent' = <<>>
            /\ UNCHANGED <<codecVars, relayVars, ingressVars>>

\* A VpnControl::AddNodes message with up to k entries is handled.
AddNodesUpTo(k) == AddNodesFrom(NetIds, NodeLists(k))

\* A VpnControl::RemoveNodes message for one of the networks ids with one of
\* the lists of node ids is handled.
RemoveNodesFrom(ids, lists) ==
    \E network_id \in ids :
        \E x \in {[r |-> ControlRemoveNodes(networks, network_id, node_ids),
                    ids |-> {node_ids[i] : i \in DOMAIN node_ids}] :
                       node_ids \in lists} :
            /\ networks' = x.r.nets
            /\ lastResult' = x.r.err
            /\ lastOp' = [op |-> "RemoveNodes", net |-> network_id,
                          ids |-> x.ids]
            /\ sent' = <<>>
            /\ UNCHANGED <<codecVars, relayVars, ingressVars>>

\* A VpnControl::RemoveNodes message with up to k node ids is handled.
RemoveNodesUpTo(k) == RemoveNodesFrom(NetIds, SeqsUpTo(NodeIds, k))

\* ------------------------------------------- control plane specification
\* The actor after try_new, handling control messages of up to MaxBatch
\* entries.
HandleAddNodes == AddNodesUpTo(MaxBatch)
HandleRemoveNodes == RemoveNodesUpTo(MaxBatch)

NextControl == HandleAddNodes \/ HandleRemoveNodes

SpecControl == InitVpn /\ [][NextControl]_vars

\* ------------------------------------------------------- Vpn specification
\* The actor after try_new, handling control messages of up to MaxVpnBatch
\* entries and forwarding decoded IP frames.
VpnAddNodes == AddNodesUpTo(MaxVpnBatch)
VpnRemoveNodes == RemoveNodesUpTo(MaxVpnBatch)

\* A decoded IP frame is handed to handle_ip.
HandleIp ==
    \E frame \in IpFrames : \E cs \in handle_ip(networks, frame) :
        /\ sent' = cs
        /\ lastOp' = [op |-> "handle_ip", frame |-> frame]
        /\ lastResult' = "Ok"
        /\ UNCHANGED <<networks, codecVars, relayVars, ingressVars>>

\* A decoded ARP frame is handed to handle_arp.
HandleArp ==
    \E frame \in ArpFrames : \E cs \in handle_arp(networks, frame) :
        /\ sent' = cs
        /\ lastOp' = [op |-> "handle_arp", frame |-> frame]
        /\ lastResult' = "Ok"
        /\ UNCHANGED <<networks, codecVars, relayVars, ingressVars>>

NextVpn == VpnAddNodes \/ VpnRemoveNodes \/ HandleIp \/ HandleArp

SpecVpn == InitVpn /\ [][NextVpn]_vars

\* ------------------------------------------------------ relay specifications
\* The relay from before start_vpn to the end of the actor: the receive
\* stream, the remote calls of the egress handler, shutdown.
InitRelay(streams) ==
    /\ bigEndian \in BOOLEAN
    /\ payloads \in streams
    /\ wire = Encode(payloads)
    /\ rx_buf = RxBufferDefault
    /\ dst = <<>>
    /\ lastOut = <<>>
    /\ TopoIdle
    /\ RelayIdle

\* start_vpn is called for a deployment of deps; the actor it returns is
\* started (Vpn::started runs before any message is handled). Without an
\* actor the relay stays NotStarted, or, when the runtime gave no endpoint,
\* is Stopped.
StartVpnFrom(deps) ==
    /\ state = "NotStarted"
    /\ startResult = "none"
    /\ \E response_endpoint \in Endpoints :
         \E r \in {start_vpn(d, response_endpoint) : d \in deps} :
             LET s == started(r.nets, r.rx)
             IN  /\ startResult' = r.err
                 /\ lastResult' = r.err
                 /\ lastOp' = [op |-> "start_vpn", step |-> r.step,
                               endpoint |-> response_endpoint]
                 /\ IF r.vpn
                    THEN /\ networks' = r.nets
                         /\ ctx' = "live"
                         /\ bound' = s.bound
                         /\ rx' = s.rx
                         /\ stream' = s.stream
                         /\ state' = s.state
                    ELSE /\ state' = IF r.step = "endpoint" THEN "Stopped"
                                                            ELSE "NotStarted"
                         /\ UNCHANGED <<networks, ctx, bound, rx, stream>>
                 /\ UNCHANGED <<sent, waitq, unbound, consumed, calls,
                                codecVars, ingressVars>>

\* Mutant of StreamItemReady: the handler awaits the calls it issued
\* (ctx.wait in place of ctx.spawn), so no item is handled while a call is
\* pending.
StreamItemReadyAwaits(results) ==
    /\ \A i \in DOMAIN calls : calls[i].status # "pending"
    /\ state = "Active"
    /\ stream = "attached"
    /\ consumed < MaxStreamItems
    /\ {result \in results :
           StreamHandlerHandle(networks, rx_buf, result, Len(dst)) # {}} # {}

\* Mutant of StreamItemReady: the stream is polled after the actor stopped.
StreamItemReadyStopped(results) ==
    /\ state \in {"Active", "Stopped"}
    /\ stream = "attached"
    /\ consumed < MaxStreamItems
    /\ {result \in results :
           StreamHandlerHandle(networks, rx_buf, result, Len(dst)) # {}} # {}

\* The running context polls the attached stream and calls the handler for
\* an item it yields, whatever calls are pending.
StreamItemReady(results) ==
    /\ state = "Active"
    /\ stream = "attached"
    /\ consumed < MaxStreamItems
    /\ {result \in results :
           StreamHandlerHandle(networks, rx_buf, result, Len(dst)) # {}} # {}

\* The stream yields one of the items results, a chunk of the bytes the
\* workload wrote or an error, and the egress handler handles it.
StreamItemOf(results) ==
    /\ StreamItemReady(results)
    /\ \E result \in results :
         \E h \in StreamHandlerHandle(networks, rx_buf, result, Len(dst)) :
             /\ wire' = Drop(wire, Len(result.vec))
             /\ rx_buf' = h.buf
             /\ dst' = dst \o h.out
             /\ lastOut' = h.out
             /\ calls' = calls \o h.calls
             /\ consumed' = consumed + 1
             /\ lastOp' = [op |-> "stream_item", ok |-> result.ok]
             /\ lastResult' = "Ok"
             /\ UNCHANGED <<bigEndian, payloads, networks, sent, state,
                            startResult, rx, stream, ctx, bound, waitq,
                            unbound, ingressVars>>

\* The items the stream can yield next: an error, or the next n bytes.
StreamResults ==
    {[ok |-> FALSE, vec |-> <<>>]}
        \cup {[ok |-> TRUE, vec |-> Take(wire, n)] : n \in 1..Len(wire)}

StreamItem == StreamItemOf(StreamResults)

\* The stream ends: StreamHandler::finished (not overridden) stops the
\* actor. Bytes the workload wrote and the stream did not yield are lost.
StreamEnd ==
    /\ state = "Active"
    /\ stream = "attached"
    /\ stream' = "finished"
    /\ state' = "Stopping"
    /\ lastOp' = [op |-> "finished"]
    /\ lastResult' = "Ok"
    /\ UNCHANGED <<networks, sent, startResult, rx, ctx, bound, waitq,
                   unbound, consumed, calls, codecVars, ingressVars>>

\* Mutant of CallCompletes: a call that ends with an error is issued again.
CallCompletesRetry ==
    /\ state = "Active"
    /\ ctx = "live"
    /\ \E i \in DOMAIN calls, ok \in BOOLEAN :
           /\ calls[i].status = "pending"
           /\ calls' = IF ok THEN [calls EXCEPT ![i].status = "done"]
                       ELSE Append([calls EXCEPT ![i].status = "done"],
                                   calls[i])
           /\ lastOp' = [op |-> "call_done", ok |-> ok]
    /\ UNCHANGED <<networks, lastResult, sent, state, startResult, rx, stream,
                   ctx, bound, waitq, unbound, consumed, codecVars,
                   ingressVars>>

\* A remote call issued by the egress handler ends, with a reply or with an
\* error (which map_err logs); its future is polled by the running context
\* and is done either way.
CallCompletes ==
    /\ state = "Active"
    /\ ctx = "live"
    /\ \E i \in DOMAIN calls, ok \in BOOLEAN :
           /\ calls[i].status = "pending"
           /\ calls' = [calls EXCEPT ![i].status = "done"]
           /\ lastOp' = [op |-> "call_done", ok |-> ok]
    /\ UNCHANGED <<networks, lastResult, sent, state, startResult, rx, stream,
                   ctx, bound, waitq, unbound, consumed, codecVars,
                   ingressVars>>

\* Handler<Shutdown>::handle: ctx.stop().
HandleShutdown ==
    /\ state = "Active"
    /\ state' = "Stopping"
    /\ lastOp' = [op |-> "Shutdown"]
    /\ lastResult' = "Ok"
    /\ UNCHANGED <<networks, sent, startResult, rx, stream, ctx, bound,
                   waitq, unbound, consumed, calls, codecVars, ingressVars>>

\* The stopping context calls Vpn::stopping: the future it hands to ctx.wait
\* is queued, and with Running::Stop the actor is stopped.
Stopping ==
    /\ state = "Stopping"
    /\ LET r == stopping(networks)
       IN  /\ waitq' = Append(waitq, r.wait)
           /\ state' = IF r.running = "Stop" THEN "Stopped" ELSE "Active"
    /\ UNCHANGED <<topoVars, startResult, rx, stream, ctx, bound, unbound,
                   consumed, calls, codecVars, ingressVars>>

\* The context of the stopped actor is dropped, and with it the futures it
\* holds: the wait list, never polled, the calls still pending (ctx.spawn)
\* and the send tasks that did not run.
DropContext ==
    /\ state = "Stopped"
    /\ ctx = "live"
    /\ ctx' = "dropped"
    /\ waitq' = <<>>
    /\ calls' = [i \in DOMAIN calls |->
                    IF calls[i].status = "pending"
                    THEN [calls[i] EXCEPT !.status = "dropped"]
                    ELSE calls[i]]
    /\ tasks' = {}
    /\ UNCHANGED <<topoVars, state, startResult, rx, stream, bound, unbound,
                   consumed, codecVars, accepted, chan, transport, sinkOpen>>

\* --------------------------------------------------- lifecycle specification
\* Every deployment, and a workload that writes up to MaxLifeFrames packets
\* to the address 2.
LifeStreams == SeqsUpTo({IpPacketBytes(2, <<0>>)}, MaxLifeFrames)

InitLife == InitRelay(LifeStreams)

LifeStart == StartVpnFrom(Deployments)

NextLife ==
    \/ LifeStart
    \/ StreamItem
    \/ StreamEnd
    \/ CallCompletes
    \/ HandleShutdown
    \/ Stopping
    \/ DropContext

SpecLife == InitLife /\ [][NextLife]_vars

\* ------------------------------------------------------ egress specification
\* Two networks on the addresses 0..3, alice at 2 in lan0 and bob at 0 in
\* lan1, and a workload that writes up to MaxEgressFrames packets:
\* to alice, to the broadcast address, an ARP request for alice's address,
\* and a packet of an unsupported link-layer type.
EgressDeployments ==
    {[n \in {"lan0", "lan1"} |->
         [network |-> [addr |-> 0, size |-> 4],
          nodes |-> IF n = "lan0" THEN <<<<2, "alice">>>>
                    ELSE <<<<0, "bob">>>>]]}

EgressPackets ==
    {IpPacketBytes(2, <<0>>), IpPacketBytes(3, <<0>>),
     ArpPacketBytes(ARP_PTYPE_IPV4, 2, <<0>>), <<8, 1>>}

EgressStreams == SeqsUpTo(EgressPackets, MaxEgressFrames)

InitEgress == InitRelay(EgressStreams)

EgressStart == StartVpnFrom(EgressDeployments)

NextEgress ==
    \/ EgressStart
    \/ StreamItem
    \/ StreamEnd
    \/ CallCompletes
    \/ HandleShutdown
    \/ Stopping
    \/ DropContext

SpecEgress == InitEgress /\ [][NextEgress]_vars

\* ------------------------------------------------------ batch specification
\* The started actor of the egress deployment and a workload that writes up
\* to MaxBatchFrames packets, each an IP packet to alice or a packet that is
\* no frame (an unsupported link-layer type, a packet too short for a type
\* field); the stream yields them in chunks of any size.
BatchPackets ==
    {IpPacketBytes(2, <<0>>), <<8, 1>>, <<8>>}

BatchStreams == SeqsUpTo(BatchPackets, MaxBatchFrames)

InitBatch ==
    /\ bigEndian \in BOOLEAN
    /\ payloads \in BatchStreams
    /\ wire = Encode(payloads)
    /\ rx_buf = RxBufferDefault
    /\ dst = <<>>
    /\ lastOut = <<>>
    /\ \E d \in EgressDeployments :
           /\ TryNew(d).err = "Ok"
           /\ networks = TryNew(d).nets
    /\ lastOp = [op |-> "none"]
    /\ lastResult = "Ok"
    /\ sent = <<>>
    /\ RelayStarted(networks)

NextBatch == StreamItem

SpecBatch == InitBatch /\ [][NextBatch]_vars

\* ----------------------------------------------------- ingress specification
\* A started actor with one network; remote peers deliver up to MaxIngress
\* packets on its data route: short ones, and one of PrefixModulus bytes.
IngressDeployment ==
    [n \in {"lan0"} |-> [network |-> [addr |-> 0, size |-> 4], nodes |-> <<>>]]

\* A delivered packet is given by its length and the byte it repeats (as
\* the payloads of the codec's test are); PacketBytes are its bytes.
IngressPackets ==
    {d \in [byte : Bytes, len : 0..MaxIngressLen] : d.len = 0 => d.byte = 0}
        \cup {[byte |-> ByteRadix - 1, len |-> PrefixModulus]}

PacketBytes(d) == [i \in 1..d.len |-> d.byte]

\* The bytes of the message of the n-th accepted call.
IngressMsg(n) == VpnPacketHandle(PacketBytes(accepted[n])).msg

InitIngress ==
    /\ bigEndian \in BOOLEAN
    /\ payloads = <<>>
    /\ wire = <<>>
    /\ rx_buf = RxBufferDefault
    /\ dst = <<>>
    /\ lastOut = <<>>
    /\ networks = TryNew(IngressDeployment).nets
    /\ lastOp = [op |-> "none"]
    /\ lastResult = "Ok"
    /\ sent = <<>>
    /\ RelayStarted(networks)

\* A remote call on the data route, with one of packets, is handled; the
\* actor accepts at most `most` of them.
HandleVpnPacketOf(packets, most) ==
    /\ state = "Active"
    /\ Len(accepted) < most
    /\ \E packet \in packets :
         LET h == VpnPacketHandle(PacketBytes(packet))
         IN  /\ accepted' = Append(accepted, packet)
             /\ tasks' = tasks \cup {Len(accepted) + 1}
             /\ lastOp' = [op |-> "VpnPacket"]
             /\ lastResult' = h.reply
    /\ UNCHANGED <<networks, sent, relayVars, codecVars, chan, transport,
                   sinkOpen>>

HandleVpnPacket == HandleVpnPacketOf(IngressPackets, MaxIngress)

\* One of the spawned send tasks is polled by the running context.
SendTaskRuns ==
    /\ state = "Active"
    /\ ctx = "live"
    /\ \E n \in tasks :
           /\ tasks' = tasks \ {n}
           /\ chan' = TxSend(chan, sinkOpen, n)
    /\ UNCHANGED <<topoVars, relayVars, codecVars, accepted, transport,
                   sinkOpen>>

\* The forwarding task (Arbiter::spawn, not part of the actor) writes the
\* oldest queued message to the socket; the write succeeds or fails.
SinkForward ==
    /\ sinkOpen
    /\ chan # <<>>
    /\ \E ok \in BOOLEAN :
         LET w == SinkWrite(chan, ok)
         IN  /\ transport' = Append(transport, w.attempt)
             /\ chan' = w.queue
             /\ sinkOpen' = w.open
    /\ UNCHANGED <<topoVars, relayVars, codecVars, accepted, tasks>>

NextIngress ==
    \/ HandleVpnPacket
    \/ SendTaskRuns
    \/ SinkForward
    \/ HandleShutdown
    \/ Stopping
    \/ DropContext

SpecIngress == InitIngress /\ [][NextIngress]_vars

\* -------------------------------------------------------- sink specification
\* The ingress side of the started actor of the ingress specification with
\* up to MaxSinkCalls data calls that carry an empty packet or a packet of
\* one byte.
SinkPackets == {[byte |-> 0, len |-> 0], [byte |-> 0, len |-> 1]}

SinkVpnPacket == HandleVpnPacketOf(SinkPackets, MaxSinkCalls)

NextSink ==
    \/ SinkVpnPacket
    \/ SendTaskRuns
    \/ SinkForward
    \/ HandleShutdown
    \/ Stopping
    \/ DropContext

SpecSink == InitIngress /\ [][NextSink]_vars

\* ------------------------------------------------------- data specification
\* The running actor of one deployment (lan0 on the addresses 0..3 with
\* alice at 2): a workload that writes at most one packet to the address 2,
\* the completion of calls, control messages of up to MaxVpnBatch entries,
\* up to MaxDataIngress data calls and the shutdown.
DataDeployments ==
    {[n \in {"lan0"} |->
         [network |-> [addr |-> 0, size |-> 4], nodes |-> <<<<2, "alice">>>>]]}

DataStreams == {<<>>, <<IpPacketBytes(2, <<0>>)>>}

DataPackets == {[byte |-> 0, len |-> 1]}

InitData ==
    /\ bigEndian \in BOOLEAN
    /\ payloads \in DataStreams
    /\ wire = Encode(payloads)
    /\ rx_buf = RxBufferDefault
    /\ dst = <<>>
    /\ lastOut = <<>>
    /\ \E d \in DataDeployments :
           /\ TryNew(d).err = "Ok"
           /\ networks = TryNew(d).nets
    /\ lastOp = [op |-> "none"]
    /\ lastResult = "Ok"
    /\ sent = <<>>
    /\ RelayStarted(networks)

DataAddNodes == state = "Active" /\ AddNodesUpTo(MaxVpnBatch)
DataRemoveNodes == state = "Active" /\ RemoveNodesUpTo(MaxVpnBatch)
DataVpnPacket == HandleVpnPacketOf(DataPackets, MaxDataIngress)

NextData ==
    \/ StreamItem
    \/ CallCompletes
    \/ DataAddNodes
    \/ DataRemoveNodes
    \/ DataVpnPacket
    \/ HandleShutdown
    \/ Stopping
    \/ DropContext

SpecData == InitData /\ [][NextData]_vars

\* ----------------------------------------------------- detach specification
\* The running actor of the data specification's deployment, whose remote
\* calls end or stay pending: the workload writes a broadcast packet and then a packet
\* to the address 2, and control messages (bob joins lan0 at the address 0,
\* bob leaves it), data calls and the shutdown arrive in any order.
DetachStreams == {<<IpPacketBytes(3, <<0>>), IpPacketBytes(2, <<0>>)>>}

DetachAddNodes ==
    state = "Active" /\ AddNodesFrom({"lan0"}, {<<<<0, "bob">>>>})
DetachRemoveNodes ==
    state = "Active" /\ RemoveNodesFrom({"lan0"}, {<<"bob">>})

InitDetach ==
    /\ bigEndian \in BOOLEAN
    /\ payloads \in DetachStreams
    /\ wire = Encode(payloads)
    /\ rx_buf = RxBufferDefault
    /\ dst = <<>>
    /\ lastOut = <<>>
    /\ \E d \in DataDeployments :
           /\ TryNew(d).err = "Ok"
           /\ networks = TryNew(d).nets
    /\ lastOp = [op |-> "none"]
    /\ lastResult = "Ok"
    /\ sent = <<>>
    /\ RelayStarted(networks)

NextDetach ==
    \/ StreamItem
    \/ CallCompletes
    \/ DetachAddNodes
    \/ DetachRemoveNodes
    \/ DataVpnPacket
    \/ HandleShutdown
    \/ Stopping
    \/ DropContext

SpecDetach == InitDetach /\ [][NextDetach]_vars

\* ----------------------------------------------------- routes specification
\* The life of the relay for any deployment, with control messages of up to
\* MaxVpnBatch entries while the actor runs (the mailbox hands a message to
\* its handler only then); the workload writes nothing.
InitRoutes == InitRelay({<<>>})

RoutesStart == StartVpnFrom(Deployments)
RoutesAddNodes == state = "Active" /\ AddNodesUpTo(MaxVpnBatch)
RoutesRemoveNodes == state = "Active" /\ RemoveNodesUpTo(MaxVpnBatch)

NextRoutes ==
    \/ RoutesStart
    \/ RoutesAddNodes
    \/ RoutesRemoveNodes
    \/ StreamEnd
    \/ HandleShutdown
    \/ Stopping
    \/ DropContext

SpecRoutes == InitRoutes /\ [][NextRoutes]_vars

\* The context of an actor that is Stopping runs stopping, and the stopped
\* actor's context is dropped: the runtime keeps polling the actor.
FairRoutes == SpecRoutes /\ WF_vars(Stopping) /\ WF_vars(DropContext)

\* ------------------------------------------------------ claims on the codec
\* Whether the DecodeBuffer holds a complete frame: a prefix and at least
\* the number of bytes the prefix announces.
HoldsCompleteFrame(buf) ==
    /\ Len(buf.inner) >= PREFIX_SIZE
    /\ Len(buf.inner) >= PREFIX_SIZE + read_prefix(buf.inner)

\* C1: round trip. Once every byte of the encoded stream has been delivered,
\* in whatever chunks, the frames emitted are exactly the payloads encoded.
C1_RoundTrip == wire = <<>> => dst = payloads

\* C2: immediate emission. After every process call run to exhaustion the
\* DecodeBuffer holds no complete frame.
C2_ImmediateEmission == ~HoldsCompleteFrame(rx_buf)

\* C3: zero-length frame. A stream that holds a frame of length 0 decodes,
\* under every chunking, to the payloads encoded: the empty payload once at
\* its position, the other frames as they were.
C3_ZeroLengthFrame ==
    (wire = <<>> /\ \E i \in 1..Len(payloads) : payloads[i] = <<>>)
        => /\ Len(dst) = Len(payloads)
           /\ \A i \in 1..Len(payloads) : dst[i] = payloads[i]

\* --------------------------------------------- claims on the topology table
\* The routing endpoint of node p in network n, spelled out.
RoutingEndpoint(p, n) == "/net/" \o p \o "/vpn/" \o n

\* The routing endpoints of the (node, network) pairs that hold ip.
HolderEndpoints(nets, ip) ==
    UNION {{RoutingEndpoint(e[2], n) : e \in {x \in nets[n].nodes : x[1] = ip}} :
               n \in DOMAIN nets}

\* The nodes that are members of network n.
Members(nets, n) == {e[2] : e \in nets[n].nodes}

\* C4: AddNodes batch atomicity. A step that handles an AddNodes message and
\* returns a failure leaves the topology table as it was.
C4_AddNodesAtomic ==
    [][(lastOp'.op = "AddNodes" /\ lastResult' # "Ok")
           => networks' = networks]_vars

\* C5: address range enforcement. add_node on a registered network with an
\* address outside the network's space, or equal to its gateway, returns
\* AddressOutOfRange and leaves the whole table unchanged.
C5_AddressRange ==
    [][(/\ lastOp'.op = "add_node"
        /\ lastOp'.net \in DOMAIN networks
        /\ \/ ~Contains(networks[lastOp'.net].network, lastOp'.ip)
           \/ lastOp'.ip = Gateway(networks[lastOp'.net].network))
           => (lastResult' = "AddressOutOfRange" /\ networks' = networks)]_vars

\* C5 witness: the gateway address was refused on a network that has a node.
C5_Witness ==
    /\ lastOp.op = "add_node"
    /\ lastResult = "AddressOutOfRange"
    /\ lastOp.net \in DOMAIN networks
    /\ lastOp.ip = Gateway(networks[lastOp.net].network)
    /\ networks[lastOp.net].nodes # {}

\* C6: duplicate network id. add_network with a registered id returns
\* DuplicateNetwork and leaves the table, the registered network included,
\* unchanged; every network is registered under its own id.
C6_DuplicateNetwork ==
    [][/\ (lastOp'.op = "add_network" /\ lastOp'.net \in DOMAIN networks)
           => (lastResult' = "DuplicateNetwork" /\ networks' = networks)
       /\ \A n \in DOMAIN networks' : networks'[n].id = n]_vars

\* C6 witness: a registered network that has a node was added again, with
\* another address space.
C6_Witness ==
    /\ lastOp.op = "add_network"
    /\ lastResult = "DuplicateNetwork"
    /\ networks[lastOp.net].nodes # {}
    /\ networks[lastOp.net].network # lastOp.space

\* C7: reverse-index consistency. resolve(ip) returns an endpoint exactly
\* when some node holds ip in some network, and then the routing endpoint of
\* such a (node, network) pair; after remove_node(net, node) no address
\* resolves to that node's endpoint in net.
C7_ReverseIndex ==
    /\ \A ip \in IPs :
           /\ endpoint(networks, ip) = {} <=> HolderEndpoints(networks, ip) = {}
           /\ endpoint(networks, ip) \subseteq HolderEndpoints(networks, ip)
    /\ (lastOp.op = "remove_node" /\ lastResult = "Ok")
           => \A ip \in IPs :
                  RoutingEndpoint(lastOp.node, lastOp.net)
                      \notin endpoint(networks, ip)

\* C7 witness: a node was removed from one of two overlapping networks while
\* a node of the other network still holds an address.
C7_Witness ==
    /\ lastOp.op = "remove_node"
    /\ lastResult = "Ok"
    /\ DOMAIN networks = NetIds
    /\ \A n \in NetIds : networks[n].network = networks[lastOp.net].network
    /\ \E ip \in IPs : endpoint(networks, ip) # {}

\* C8: membership invariants. In every network every assigned address lies
\* in the network's address space and is not the gateway, no address is
\* assigned to two nodes, and no node has two addresses.
C8_Membership ==
    \A n \in DOMAIN networks :
        /\ \A e \in networks[n].nodes :
               /\ Contains(networks[n].network, e[1])
               /\ e[1] # Gateway(networks[n].network)
        /\ \A e1, e2 \in networks[n].nodes :
               /\ e1[1] = e2[1] => e1[2] = e2[2]
               /\ e1[2] = e2[2] => e1[1] = e2[1]

\* C8 witness: an AddNodes message failed on a network with two nodes.
C8_Witness ==
    /\ lastOp.op = "AddNodes"
    /\ lastResult = "AddressInUse"
    /\ \E n \in DOMAIN networks : Cardinality(networks[n].nodes) = 2

\* ------------------------------------------------------ claims on forwarding
\* The networks whose broadcast address is ip.
BroadcastNets(nets, ip) ==
    {n \in DOMAIN nets : ip = BroadcastAddr(nets[n].network)}

\* C9: broadcast fan-out. For a frame whose destination is the broadcast
\* address of one network N, handle_ip issues one call per member of N, none
\* to any other endpoint, each with the bytes of the whole frame.
C9_BroadcastFanOut ==
    (lastOp.op = "handle_ip")
        => \A n \in DOMAIN networks :
               BroadcastNets(networks, lastOp.frame.dst) = {n}
                   => /\ \A p \in Members(networks, n) :
                             Cardinality({i \in DOMAIN sent :
                                 sent[i].target = RoutingEndpoint(p, n)}) = 1
                      /\ \A i \in DOMAIN sent :
                             /\ sent[i].target \in
                                   {RoutingEndpoint(p, n) : p \in Members(networks, n)}
                             /\ sent[i].payload = lastOp.frame

\* The (node, network) pairs that hold ip.
Holders(nets, ip) ==
    UNION {{<<e[2], n>> : e \in {x \in nets[n].nodes : x[1] = ip}} :
               n \in DOMAIN nets}

\* C10 as stated: for a frame to a host address, every (P, N) that holds the
\* address gets the single call, to "/net/P/vpn/N", with the whole frame; no
\* holder, no call.
C10_Unicast ==
    (lastOp.op = "handle_ip" /\ BroadcastNets(networks, lastOp.frame.dst) = {})
        => /\ \A h \in Holders(networks, lastOp.frame.dst) :
                  sent = <<[target |-> RoutingEndpoint(h[1], h[2]),
                            payload |-> lastOp.frame]>>
           /\ Holders(networks, lastOp.frame.dst) = {} => sent = <<>>

\* C10 amended: for a frame to a host address that some node holds, exactly
\* one call is issued, with the whole frame, to the routing endpoint
\* "/net/P/vpn/N" of a pair (P, N) that holds the address; no holder, no
\* call.
C10_UnicastAmended ==
    (lastOp.op = "handle_ip" /\ BroadcastNets(networks, lastOp.frame.dst) = {})
        => /\ Holders(networks, lastOp.frame.dst) # {}
                  => /\ Len(sent) = 1
                     /\ sent[1].payload = lastOp.frame
                     /\ \E h \in Holders(networks, lastOp.frame.dst) :
                            sent[1].target = RoutingEndpoint(h[1], h[2])
           /\ Holders(networks, lastOp.frame.dst) = {} => sent = <<>>

\* C10 witness: a frame to an address held by one node was forwarded, after
\* a frame whose address nobody held could not have been.
C10_Witness ==
    /\ lastOp.op = "handle_ip"
    /\ BroadcastNets(networks, lastOp.frame.dst) = {}
    /\ Cardinality(Holders(networks, lastOp.frame.dst)) = 1
    /\ Len(sent) = 1

\* C11: ARP forwarding rule. handle_arp issues a remote call exactly when the
\* frame's protocol type is 0x0800 and some node holds its target protocol
\* address; it is then one call, to the routing endpoint of a holder of that
\* address, with the whole frame; otherwise no call is issued.
C11_ArpForwarding ==
    (lastOp.op = "handle_arp")
        => /\ (sent # <<>>)
                  <=> (/\ lastOp.frame.ptype = 2048
                       /\ HolderEndpoints(networks, lastOp.frame.tpa) # {})
           /\ (sent # <<>>)
                  => /\ Len(sent) = 1
                     /\ sent[1].payload = lastOp.frame
                     /\ sent[1].target
                            \in HolderEndpoints(networks, lastOp.frame.tpa)

\* C11 witness: an IPv4 ARP frame whose target address a node holds was
\* forwarded.
C11_Witness ==
    /\ lastOp.op = "handle_arp"
    /\ lastOp.frame.ptype = 2048
    /\ HolderEndpoints(networks, lastOp.frame.tpa) # {}
    /\ Len(sent) = 1

\* --------------------------------------------------- claims on the lifecycle
\* C12: lifecycle order. The state only moves along NotStarted -> Active ->
\* Stopping -> Stopped, with the shortcut NotStarted -> Stopped only when
\* start_vpn fails for want of an endpoint; nothing leaves Stopped.
C12_LifecycleOrder ==
    [][\/ state' = state
       \/ state = "NotStarted" /\ state' = "Active"
       \/ /\ state = "NotStarted"
          /\ state' = "Stopped"
          /\ lastOp'.op = "start_vpn"
          /\ lastOp'.endpoint = "None"
          /\ startResult' # "Ok"
       \/ state = "Active" /\ state' = "Stopping"
       \/ state = "Stopping" /\ state' = "Stopped"]_vars

\* C12 witness: an actor that handled a chunk was shut down, stopped and
\* dropped.
C12_Witness ==
    /\ state = "Stopped"
    /\ ctx = "dropped"
    /\ lastOp.op = "Shutdown"
    /\ consumed > 0

\* C13: fatal startup error. When the runtime's response has no endpoint,
\* start_vpn returns an error and the relay is Stopped: no actor, no route
\* registered, no item of the stream consumed, no call issued.
C13_FatalStartup ==
    /\ (/\ lastOp.op = "start_vpn"
        /\ lastOp.endpoint = "None"
        /\ lastOp.step # "networking")
           => /\ startResult \notin {"none", "Ok"}
              /\ state = "Stopped"
    /\ (startResult \notin {"none", "Ok"})
           => /\ state \in {"NotStarted", "Stopped"}
              /\ ctx = "none"
              /\ bound = {}
              /\ consumed = 0
              /\ dst = <<>>
              /\ calls = <<>>

\* C13 witness: the workload had bytes to send and the runtime gave no
\* endpoint.
C13_Witness ==
    /\ lastOp.op = "start_vpn"
    /\ lastOp.endpoint = "None"
    /\ lastOp.step = "endpoint"
    /\ state = "Stopped"
    /\ wire # <<>>

\* Both routes of every network of the table are registered.
RoutesRegistered ==
    \A n \in DOMAIN networks :
        <<n, "VpnPacket">> \in bound /\ <<n, "VpnControl">> \in bound

\* C14: route registration on start. Whenever the actor is Active the data
\* route and the control route of every network are registered, and they
\* were before any item of the stream was handled.
C14_RoutesOnStart ==
    [][/\ state' = "Active" => RoutesRegistered'
       /\ consumed' # consumed => RoutesRegistered]_vars

\* C14 witness: an actor with two networks handled a chunk.
C14_Witness ==
    /\ state = "Active"
    /\ DOMAIN networks = NetIds
    /\ consumed > 0
    /\ dst # <<>>

\* C15: route unregistration on shutdown. Once the actor is Stopped after a
\* shutdown request, typed::unbind has been called for every network.
C15_UnbindOnShutdown ==
    (state = "Stopped" /\ lastOp.op = "Shutdown")
        => DOMAIN networks \subseteq unbound

\* ------------------------------------------------------ claims on the egress
\* C16: in-flight forwards survive shutdown. Once the actor is Stopping or
\* Stopped, every call issued before is still running or has ended with a
\* reply or an error of its own: none was cancelled with the actor.
C16_InFlightSurvive ==
    (state \in {"Stopping", "Stopped"})
        => \A i \in DOMAIN calls :
               calls[i].status \in {"pending", "done"}

\* C17: egress forwarding order. The calls are issued in the order in which
\* their frames were decoded: a call issued before another belongs to the
\* same frame or to an earlier one, and each call carries the frame decoded
\* at its position.
C17_EgressOrder ==
    /\ \A i, j \in DOMAIN calls :
           i < j => calls[i].frame <= calls[j].frame
    /\ \A i \in DOMAIN calls :
           /\ calls[i].frame \in 1..Len(dst)
           /\ EtherFrameTryFrom(dst[calls[i].frame]).ok
           /\ calls[i].payload = EtherFrameTryFrom(dst[calls[i].frame]).frame

\* C17 witness: two frames decoded from different chunks were forwarded, and
\* the call of the later one ended while the call of the earlier one is
\* still pending.
C17_Witness ==
    /\ consumed >= 2
    /\ \E i, j \in DOMAIN calls :
           /\ calls[i].frame < calls[j].frame
           /\ calls[i].status = "pending"
           /\ calls[j].status = "done"

\* ----------------------------------------------------- claims on the ingress
\* C18: ingress delivery order. The messages written to the local transport
\* appear in the order in which their calls were accepted, each as one
\* whole message.
C18_IngressOrder ==
    \A i, j \in DOMAIN transport :
        (i < j /\ transport[i].ok /\ transport[j].ok)
            => transport[i].n < transport[j].n

\* C19: ingress framing, at most once. For every accepted call at most one
\* write is attempted, failed writes included; a written message is a
\* 2-byte prefix that reads as the payload's length, followed by the
\* payload's bytes, and the codec decodes it to that payload.
C19_IngressFraming ==
    /\ \A i, j \in DOMAIN transport :
           transport[i].n = transport[j].n => i = j
    /\ \A i \in DOMAIN transport :
           LET packet == PacketBytes(accepted[transport[i].n])
               msg == IngressMsg(transport[i].n)
           IN  /\ Len(msg) = PREFIX_SIZE + Len(packet)
               /\ Drop(msg, PREFIX_SIZE) = packet
               /\ read_prefix(msg) = Len(packet)
               /\ RxProcess(RxBufferDefault, msg).out = <<packet>>

\* ------------------------------------------- claims on the control handler
\* The results a control message may return: success or one of the named
\* failures.
ControlResults ==
    {"Ok", "UnknownNetwork", "ParseError", "AddressOutOfRange",
     "AddressInUse"}

\* C20: control message on an unknown network. A step that handles an
\* AddNodes or RemoveNodes message whose network_id is not registered
\* returns UnknownNetwork and leaves the topology table unchanged; every
\* control step returns success or a named failure, and a step that returns
\* a failure leaves the table unchanged.
C20_ControlFailures ==
    [][(lastOp'.op \in {"AddNodes", "RemoveNodes"})
           => /\ lastOp'.net \notin DOMAIN networks
                    => (lastResult' = "UnknownNetwork" /\ networks' = networks)
              /\ lastResult' \in ControlResults
              /\ lastResult' # "Ok" => networks' = networks]_vars

\* C21: RemoveNodes semantics. A step that handles a RemoveNodes message on
\* a registered network succeeds; in that network the memberships of the
\* listed nodes, and their index entries, are gone and every other one is
\* kept, whether or not a listed node was a member; every other network is
\* unchanged.
C21_RemoveNodes ==
    [][(lastOp'.op = "RemoveNodes" /\ lastOp'.net \in DOMAIN networks)
           => LET n == lastOp'.net
                  gone == {e \in networks[n].nodes : e[2] \in lastOp'.ids}
              IN  /\ lastResult' = "Ok"
                  /\ DOMAIN networks' = DOMAIN networks
                  /\ networks'[n].nodes = networks[n].nodes \ gone
                  /\ networks'[n].endpoints =
                         {x \in networks[n].endpoints :
                             \A e \in gone : e[1] # x[1]}
                  /\ networks'[n].network = networks[n].network
                  /\ networks'[n].gateway = networks[n].gateway
                  /\ \A m \in DOMAIN networks \ {n} :
                         networks'[m] = networks[m]]_vars

\* C21 witness: a RemoveNodes message listed both nodes; one is no longer a
\* member of the network and is still a member of the other network, at the
\* address the deployment or an AddNodes message gave it.
C21_Witness ==
    /\ lastOp.op = "RemoveNodes"
    /\ lastOp.net \in DOMAIN networks
    /\ lastOp.ids = NodeIds
    /\ networks[lastOp.net].nodes = {}
    /\ \E m \in DOMAIN networks \ {lastOp.net} :
           Members(networks, m) \cap lastOp.ids # {}

\* ------------------------------------------------------- claims on batches
IsFrame(packet) == EtherFrameTryFrom(packet).ok

\* The packets ps without those at the positions of B, from position i on.
RECURSIVE WithoutFrom(_, _, _)
WithoutFrom(ps, B, i) ==
    IF i > Len(ps) THEN <<>>
    ELSE (IF i \in B THEN <<>> ELSE <<ps[i]>>) \o WithoutFrom(ps, B, i + 1)

\* A sequence of calls without the numbers of their frames.
CallsOf(cs) ==
    [i \in DOMAIN cs |-> [target |-> cs[i].target, payload |-> cs[i].payload]]

\* C22: a bad frame never aborts the batch. When a chunk decodes into
\* several packets (the buffer held the bytes of the first of them that came
\* before, and the packets decoded are those the workload wrote that end in
\* the chunk), the calls the handler issues and the buffer it leaves are
\* those of the same chunk without the bytes of the packets that lie whole
\* in it and are no frames; no call is issued for a packet that is no frame.
C22_BadFrame ==
    [][(lastOp'.op = "stream_item" /\ lastOp'.ok)
           => LET at[i \in 1..(Len(payloads) + 1)] ==
                      IF i = 1 THEN 0
                      ELSE at[i - 1] + PREFIX_SIZE + Len(payloads[i - 1])
                  all  == Encode(payloads)
                  off  == at[Len(payloads) + 1] - Len(wire)
                  n    == Len(wire) - Len(wire')
                  ends == {i \in DOMAIN payloads :
                              off < at[i + 1] /\ at[i + 1] <= off + n}
                  bad  == {i \in ends : ~IsFrame(payloads[i]) /\ at[i] >= off}
                  alt  == Encode(WithoutFrom(payloads, bad, 1))
                  vec  == SubSeq(alt, off + 1, off + n - (Len(all) - Len(alt)))
                  new  == SubSeq(calls', Len(calls) + 1, Len(calls'))
              IN  (/\ Cardinality(ends) >= 2
                   /\ \E a \in ends :
                          /\ \A i \in ends : a <= i
                          /\ Len(dst) = a - 1
                          /\ rx_buf.inner = SubSeq(all, at[a] + 1, off)
                   /\ lastOut' = WithoutFrom(payloads, DOMAIN payloads \ ends, 1))
                      => /\ \E h \in StreamHandlerHandle(
                                         networks, rx_buf,
                                         [ok |-> TRUE, vec |-> vec], Len(dst)) :
                                /\ h.buf = rx_buf'
                                /\ SelectSeq(h.out, IsFrame)
                                       = SelectSeq(lastOut', IsFrame)
                                /\ CallsOf(h.calls) = CallsOf(new)
                         /\ \A i \in DOMAIN new :
                                IsFrame(dst'[new[i].frame])]_vars

\* C22 witness: one chunk was decoded into three packets, the second of
\* them no frame, and calls were issued for the first and for the third.
C22_Witness ==
    /\ lastOp.op = "stream_item"
    /\ Len(lastOut) = 3
    /\ IsFrame(lastOut[1]) /\ ~IsFrame(lastOut[2]) /\ IsFrame(lastOut[3])
    /\ \E i, j \in DOMAIN calls :
           calls[i].frame = Len(dst) - 2 /\ calls[j].frame = Len(dst)

\* --------------------------------------------------- claims on the data plane
\* C23: the data plane leaves the topology unchanged. A step that handles an
\* item of the stream, a data call, a send task, a write to the socket or
\* the end of a remote call leaves the topology table as it is; a step that
\* changes the table handled an AddNodes or a RemoveNodes message; and the
\* end of a call, with a reply or an error, issues no call.
C23_DataPlane ==
    [][/\ (<<codecVars, consumed, calls, ingressVars>>'
               # <<codecVars, consumed, calls, ingressVars>>)
              => networks' = networks
       /\ networks' # networks
              => lastOp'.op \in {"AddNodes", "RemoveNodes"}
       /\ lastOp'.op = "call_done"
              => /\ Len(calls') = Len(calls)
                 /\ CallsOf(calls') = CallsOf(calls)]_vars

\* C23 witness: a call ended with an error after a frame was decoded, a data
\* call was accepted and a control message had changed the table.
C23_Witness ==
    /\ lastOp.op = "call_done"
    /\ ~lastOp.ok
    /\ dst # <<>>
    /\ accepted # <<>>
    /\ Members(networks, "lan0") # {"alice"}

\* C24: detached forwarding does not block the owner. While the actor runs
\* and calls it issued are pending, the next chunk of the stream is handled
\* (the whole rest of the bytes in one chunk included), a data call and the
\* control messages are handled, and the shutdown is handled.
C24_Detached ==
    (/\ state = "Active"
     /\ ctx = "live"
     /\ \E i \in DOMAIN calls : calls[i].status = "pending")
        => /\ (stream = "attached" /\ consumed < MaxStreamItems /\ wire # <<>>)
                  => StreamItemReady({[ok |-> TRUE, vec |-> wire]})
           /\ Len(accepted) < MaxDataIngress => ENABLED DataVpnPacket
           /\ ENABLED DetachAddNodes
           /\ ENABLED DetachRemoveNodes
           /\ ENABLED HandleShutdown

\* C24 witness: the two calls of a broadcast and the call of the frame of a
\* later chunk are all pending, a data call was accepted, bob joined lan0
\* and the shutdown was handled.
C24_Witness ==
    /\ state = "Stopping"
    /\ consumed = 2
    /\ Cardinality({i \in DOMAIN calls : calls[i].frame = 1}) >= 2
    /\ \E i \in DOMAIN calls : calls[i].frame = 2
    /\ \A i \in DOMAIN calls : calls[i].status = "pending"
    /\ accepted # <<>>
    /\ "bob" \in Members(networks, "lan0")


\* C25: stop ends egress. Once the actor is Stopped it stays Stopped, no
\* item of the stream is handled (the bytes the workload wrote stay where
\* they are, the buffer and the decoded frames are as they were) and no
\* call is issued.
C25_StopEndsEgress ==
    [][state = "Stopped"
          => /\ state' = "Stopped"
             /\ consumed' = consumed
             /\ wire' = wire
             /\ rx_buf' = rx_buf
             /\ dst' = dst
             /\ Len(calls') = Len(calls)
             /\ CallsOf(calls') = CallsOf(calls)]_vars

\* C25 witness: the actor was shut down while the stream was attached, after
\* it forwarded a frame and with bytes of the workload not yet read; its
\* context is gone.
C25_Witness ==
    /\ state = "Stopped"
    /\ ctx = "dropped"
    /\ stream = "attached"
    /\ wire # <<>>
    /\ consumed < MaxStreamItems
    /\ calls # <<>>

\* C26: data-plane errors are absorbed. A step that accepts a data call
\* answers Ok, whatever the state of the channel and of the socket; and a
\* step of the ingress path after the handler (a send task runs, a write is
\* attempted, with or without success) leaves the lifecycle state, the
\* table and the decode buffer as they were.
C26_Absorbed ==
    [][/\ accepted' # accepted => lastResult' = "Ok"
       /\ (chan' # chan \/ transport' # transport \/ sinkOpen' # sinkOpen
              \/ (tasks' # tasks /\ ctx' = ctx))
             => /\ state' = state
                /\ networks' = networks
                /\ rx_buf' = rx_buf
                /\ lastResult' = lastResult]_vars

\* C26 witness: the first write failed, and the actor, still running,
\* accepted and answered a further call whose send task found the channel
\* closed.
C26_Witness ==
    /\ state = "Active"
    /\ ~sinkOpen
    /\ Len(transport) = 1
    /\ ~transport[1].ok
    /\ Len(accepted) > transport[1].n
    /\ tasks = {}
    /\ lastOp.op = "VpnPacket"
    /\ lastResult = "Ok"

\* C27: the ingress length prefix does not wrap. The prefix of every message
\* written to the local transport reads as the number of the bytes that
\* follow it.
C27_PrefixNoWrap ==
    \A i \in DOMAIN transport :
        transport[i].ok
            => LET msg == IngressMsg(transport[i].n)
               IN  read_prefix(msg) = Len(msg) - PREFIX_SIZE

\* The networks that have a route registered.
BoundNetworks == {r[1] : r \in bound}

\* C28: registered routes track the network set. From the start on the
\* networks of the table are the networks whose routes were registered at
\* startup, whatever control messages were handled; and once the actor is
\* Stopped, the networks whose routes were unregistered are those networks.
C28_RoutesTrack ==
    /\ ctx # "none" => DOMAIN networks = BoundNetworks
    /\ (ctx # "none" /\ state = "Stopped") => unbound = BoundNetworks

\* C29: end of the local stream stops the relay. Once the stream has ended,
\* the actor eventually is Stopped with typed::unbind called for every
\* network, without a shutdown request.
C29_StreamEndStops ==
    (stream = "finished")
        ~> (state = "Stopped" /\ DOMAIN networks \subseteq unbound)

\* C30: a transport error item is skipped. The step that handles an error
\* item of the stream issues no call, decodes nothing, and leaves the decode
\* buffer (buffered bytes and expected length), the unread bytes, the table
\* and the lifecycle state as they were.
C30_ErrorItemSkipped ==
    [][(consumed' # consumed /\ ~lastOp'.ok)
          => /\ calls' = calls
             /\ rx_buf' = rx_buf
             /\ dst' = dst
             /\ wire' = wire
             /\ networks' = networks
             /\ state' = state
             /\ stream' = stream]_vars

\* C30 witness: an error item was handled after a chunk that left the start
\* of a packet in the buffer, which still holds it.
C30_Witness ==
    /\ lastOp.op = "stream_item"
    /\ ~lastOp.ok
    /\ consumed = 2
    /\ rx_buf.inner # <<>>
    /\ state = "Active"

\* C31: the decode buffer is always in place. Every step that handles an
\* item of the stream finds rx_buf present and leaves it present; and a
\* chunk is never dropped: its bytes are run through the buffer, which is
\* left as the codec leaves it, with the packets the codec decodes.
C31_BufferInPlace ==
    [][consumed' # consumed
          => /\ rx_buf # RxBufNone
             /\ rx_buf' # RxBufNone
             /\ lastOp'.ok
                   => LET r == RxProcess(rx_buf,
                                         Take(wire, Len(wire) - Len(wire')))
                      IN  /\ rx_buf' = r.buf
                          /\ lastOut' = r.out]_vars

\* C31 witness: a second chunk was handled after chunks that decoded a
\* frame and a packet that is not a frame, and the buffer is in place.
C31_Witness ==
    /\ lastOp.op = "stream_item"
    /\ lastOp.ok
    /\ consumed = 2
    /\ lastOut # <<>>
    /\ \E i \in DOMAIN dst : IsFrame(dst[i])
    /\ \E i \in 1..(Len(dst) - Len(lastOut)) : ~IsFrame(dst[i])
    /\ rx_buf # RxBufNone
=============================================================================
